---- MODULE Spec2Model ----
(***************************************************************************)
(* Model of @vue-spark/back-handler: the static class BackHandler (a       *)
(* process-wide stack of handler entries with init/destroy lifecycle and   *)
(* an asynchronous LIFO dispatch) and the composable useBackHandler.       *)
(*                                                                         *)
(* An entry is an object compared by reference; it is modelled by a        *)
(* number.  onBackPress is an async function: it runs synchronously up to  *)
(* `await entry.handler()` and its continuation runs later, so a dispatch  *)
(* on a non-empty stack is two steps (OnBackPress, Settle) between which   *)
(* any other operation may run.                                            *)
(***************************************************************************)
EXTENDS Integers, Sequences, FiniteSets

\* ---------------------------------------------------------------- bounds
MaxStack == 3        \* pushes are explored while the stack is shorter
NumEntries == 2      \* entry objects created by direct callers
MaxFresh == 2        \* entry objects a scoped binding may create
MaxDispatch == 2     \* dispatches whose handler may be pending at once
LiveDepth == 2       \* stack depth explored by the runs with fairness

\* ---------------------------------------------------------------- values
DirectEntries == 1..NumEntries
FreshEntries == (NumEntries + 1)..(NumEntries + MaxFresh)
AllEntries == DirectEntries \cup FreshEntries

\* `_options = null`
NoOptions == [fallback |-> 0, onPush |-> FALSE, onRemove |-> FALSE]

\* Two distinct fallback functions, enough to tell one configuration's
\* fallback from another's.
Fallbacks == {1, 2}

\* BackHandlerOptions: a fallback (required) and the optional observers.
BackHandlerOptions ==
  [fallback : Fallbacks, onPush : BOOLEAN, onRemove : BOOLEAN]

\* What `await entry.handler()` produces: a value, or a rejection/throw.
HandlerResults == {"undefined", "true", "false", "reject"}

\* The handler function an entry carries: a binding's entry carries onHide.
HandlerOf(e) == IF e \in DirectEntries THEN <<"handler", e>> ELSE <<"onHide", 0>>

VARIABLES
  stack,          \* BackHandler.stack
  options,        \* BackHandler._options (NoOptions for null)
  isInitialized,  \* BackHandler.isInitialized
  pending,        \* pending[e]: dispatches awaiting the handler of entry e
  entry,          \* useBackHandler: the closure variable `entry` (0 = null)
  showing,        \* useBackHandler: toValue(showing)
  disposed,       \* the owning scope has been disposed
  fresh,          \* number of entry objects the binding has created
  last            \* the last operation: its input, the state it found,
                  \* the callbacks it invoked and whether it raised

vars == <<stack, options, isInitialized, pending, entry, showing, disposed,
          fresh, last>>

\* ------------------------------------------------------- array helpers
\* Array.prototype.indexOf, 1-based; 0 when absent (-1 in the source).
IndexOf(s, e) ==
  IF \E i \in 1..Len(s) : s[i] = e
    THEN CHOOSE i \in 1..Len(s) : s[i] = e /\ \A j \in 1..(i - 1) : s[j] /= e
    ELSE 0

\* Array.prototype.splice(index, 1)
Splice(s, i) == [j \in 1..(Len(s) - 1) |-> IF j < i THEN s[j] ELSE s[j + 1]]

Count(s, e) == Cardinality({i \in 1..Len(s) : s[i] = e})

\* An options getter that hands out null instead of throwing.
OptionsNeverThrows(opt) == FALSE

\* The getter `options`: throws when _options is null.
OptionsThrows(opt) == opt = NoOptions

\* ------------------------------------------------- BackHandler methods
\* Each method is an operator from the state it reads to the state it
\* leaves, the callbacks it invokes in order, and whether it throws.

\* init without the `isInitialized` guard: a second init replaces the options.
InitResultOverwrite(init, opt, o) ==
  [isInitialized |-> TRUE, options |-> o, calls |-> <<>>, err |-> FALSE]

\* BackHandler.init
InitResult(init, opt, o) ==
  IF init
    THEN [isInitialized |-> init, options |-> opt,
          calls |-> <<<<"warn", 0>>>>, err |-> FALSE]
    ELSE [isInitialized |-> TRUE, options |-> o, calls |-> <<>>, err |-> FALSE]

\* destroy that forgets `this.isInitialized = false`.
DestroyResultKeepsFlag(s, opt, init) ==
  [stack |-> <<>>, options |-> NoOptions, isInitialized |-> init]

\* BackHandler.destroy
DestroyResult(s, opt, init) ==
  [stack |-> <<>>, options |-> NoOptions, isInitialized |-> FALSE]

\* push that stores the entry at both ends of the array.
PushResultTwice(s, opt, e) ==
  [stack |-> <<e>> \o Append(s, e),
   calls |-> IF opt.onPush THEN <<<<"onPush", e>>>> ELSE <<>>,
   err |-> OptionsThrows(opt)]

\* push that skips an entry which is already on the stack.
PushResultUnique(s, opt, e) ==
  [stack |-> IF Count(s, e) > 0 THEN s ELSE Append(s, e),
   calls |-> IF opt.onPush /\ Count(s, e) = 0 THEN <<<<"onPush", e>>>> ELSE <<>>,
   err |-> OptionsThrows(opt)]

\* BackHandler.push: the array push comes first, then the options getter.
PushResult(s, opt, e) ==
  [stack |-> Append(s, e),
   calls |-> IF opt.onPush THEN <<<<"onPush", e>>>> ELSE <<>>,
   err |-> OptionsThrows(opt)]

\* remove by moving the last slot into the hole (swap-remove).
RemoveResultSwap(s, opt, e) ==
  LET index == IndexOf(s, e) IN
  IF index > 0
    THEN [stack |-> [j \in 1..(Len(s) - 1) |->
                       IF j = index THEN s[Len(s)] ELSE s[j]],
          calls |-> IF opt.onRemove THEN <<<<"onRemove", e>>>> ELSE <<>>,
          err |-> OptionsThrows(opt)]
    ELSE [stack |-> s, calls |-> <<>>, err |-> FALSE]

\* remove that notifies onRemove outside the `index > -1` test.
RemoveResultNotifiesAlways(s, opt, e) ==
  LET index == IndexOf(s, e) IN
  [stack |-> IF index > 0 THEN Splice(s, index) ELSE s,
   calls |-> IF opt.onRemove THEN <<<<"onRemove", e>>>> ELSE <<>>,
   err |-> OptionsThrows(opt)]

\* remove without the `index > -1` test: splice(-1, 1) drops the last slot.
RemoveResultNoGuard(s, opt, e) ==
  LET index == IndexOf(s, e) IN
  IF Len(s) > 0
    THEN [stack |-> Splice(s, IF index > 0 THEN index ELSE Len(s)),
          calls |-> IF opt.onRemove THEN <<<<"onRemove", e>>>> ELSE <<>>,
          err |-> OptionsThrows(opt)]
    ELSE [stack |-> s, calls |-> <<>>, err |-> OptionsThrows(opt)]

\* remove using lastIndexOf: the slot nearest the top goes.
RemoveResultLast(s, opt, e) ==
  LET found == {i \in 1..Len(s) : s[i] = e} IN
  IF found /= {}
    THEN [stack |-> Splice(s, CHOOSE i \in found : \A j \in found : j <= i),
          calls |-> IF opt.onRemove THEN <<<<"onRemove", e>>>> ELSE <<>>,
          err |-> OptionsThrows(opt)]
    ELSE [stack |-> s, calls |-> <<>>, err |-> FALSE]

\* BackHandler.remove: the options getter is read only when the entry is found.
RemoveResult(s, opt, e) ==
  LET index == IndexOf(s, e) IN
  IF index > 0
    THEN [stack |-> Splice(s, index),
          calls |-> IF opt.onRemove THEN <<<<"onRemove", e>>>> ELSE <<>>,
          err |-> OptionsThrows(opt)]
    ELSE [stack |-> s, calls |-> <<>>, err |-> FALSE]

\* onBackPress reading stack[0] instead of stack[length - 1].
BackPressResultBottom(s, opt) ==
  IF Len(s) > 0
    THEN [entry |-> s[1], calls |-> <<HandlerOf(s[1])>>, err |-> FALSE]
    ELSE [entry |-> 0,
          calls |-> IF OptionsThrows(opt) THEN <<>>
                    ELSE <<<<"fallback", opt.fallback>>>>,
          err |-> OptionsThrows(opt)]

\* onBackPress whose empty-stack branch does nothing.
BackPressResultNoFallback(s, opt) ==
  IF Len(s) > 0
    THEN [entry |-> s[Len(s)], calls |-> <<HandlerOf(s[Len(s)])>>, err |-> FALSE]
    ELSE [entry |-> 0, calls |-> <<>>, err |-> FALSE]

\* BackHandler.onBackPress up to the await: the entry inspected (0 when the
\* stack is empty), the callbacks invoked, and whether the promise rejects.
BackPressResult(s, opt) ==
  IF Len(s) > 0
    THEN [entry |-> s[Len(s)], calls |-> <<HandlerOf(s[Len(s)])>>, err |-> FALSE]
    ELSE [entry |-> 0,
          calls |-> IF OptionsThrows(opt) THEN <<>>
                    ELSE <<<<"fallback", opt.fallback>>>>,
          err |-> OptionsThrows(opt)]

\* onBackPress testing `result === true` instead of `result !== false`.
SettleResultOnlyTrue(s, opt, e, res) ==
  IF res = "true"
    THEN [stack |-> RemoveResult(s, opt, e).stack,
          calls |-> RemoveResult(s, opt, e).calls, err |-> FALSE]
    ELSE [stack |-> s, calls |-> <<>>, err |-> FALSE]

\* onBackPress whose catch block removes the entry as well.
SettleResultCatchRemoves(s, opt, e, res) ==
  IF res \in {"undefined", "true", "reject"}
    THEN [stack |-> RemoveResult(s, opt, e).stack,
          calls |-> RemoveResult(s, opt, e).calls, err |-> FALSE]
    ELSE [stack |-> s, calls |-> <<>>, err |-> FALSE]

\* onBackPress that falls through to the fallback once the stack is empty.
SettleResultFallsBack(s, opt, e, res) ==
  LET r == IF res \in {"undefined", "true"} THEN RemoveResult(s, opt, e)
           ELSE [stack |-> s, calls |-> <<>>, err |-> FALSE] IN
  [stack |-> r.stack,
   calls |-> IF r.stack = <<>> /\ ~OptionsThrows(opt)
               THEN r.calls \o <<<<"fallback", opt.fallback>>>>
               ELSE r.calls,
   err |-> FALSE]

\* onBackPress splicing at indexOf(entry) itself, without the `index > -1`
\* test of remove.
SettleResultUnguarded(s, opt, e, res) ==
  IF res \in {"undefined", "true"}
    THEN [stack |-> RemoveResultNoGuard(s, opt, e).stack,
          calls |-> RemoveResultNoGuard(s, opt, e).calls, err |-> FALSE]
    ELSE [stack |-> s, calls |-> <<>>, err |-> FALSE]

\* onBackPress popping the stack instead of removing the entry it inspected.
SettleResultPops(s, opt, e, res) ==
  IF res \in {"undefined", "true"} /\ Len(s) > 0
    THEN [stack |-> SubSeq(s, 1, Len(s) - 1),
          calls |-> IF opt.onRemove THEN <<<<"onRemove", s[Len(s)]>>>> ELSE <<>>,
          err |-> FALSE]
    ELSE [stack |-> s, calls |-> <<>>, err |-> FALSE]

\* onBackPress calling remove outside the try block.
SettleResultUncaught(s, opt, e, res) ==
  IF res \in {"undefined", "true"}
    THEN [stack |-> RemoveResult(s, opt, e).stack,
          calls |-> RemoveResult(s, opt, e).calls,
          err |-> RemoveResult(s, opt, e).err]
    ELSE [stack |-> s, calls |-> <<>>, err |-> FALSE]

\* onBackPress notifying onRemove itself after remove, whether or not the
\* entry was still on the stack.
SettleResultNotifiesAlways(s, opt, e, res) ==
  IF res \in {"undefined", "true"}
    THEN [stack |-> RemoveResult(s, opt, e).stack,
          calls |-> IF opt.onRemove THEN <<<<"onRemove", e>>>> ELSE <<>>,
          err |-> FALSE]
    ELSE [stack |-> s, calls |-> <<>>, err |-> FALSE]

\* onBackPress reading `this.options` after the await, outside the try block.
SettleResultReadsOptions(s, opt, e, res) ==
  IF res \in {"undefined", "true"}
    THEN [stack |-> RemoveResult(s, opt, e).stack,
          calls |-> RemoveResult(s, opt, e).calls,
          err |-> OptionsThrows(opt)]
    ELSE [stack |-> s, calls |-> <<>>, err |-> OptionsThrows(opt)]

\* BackHandler.onBackPress after the await: `result !== false` removes the
\* entry; a rejection, and an error thrown by remove, end in the catch.
SettleResult(s, opt, e, res) ==
  IF res \in {"undefined", "true"}
    THEN [stack |-> RemoveResult(s, opt, e).stack,
          calls |-> RemoveResult(s, opt, e).calls, err |-> FALSE]
    ELSE [stack |-> s, calls |-> <<>>, err |-> FALSE]

\* ------------------------------------------------------------- history
\* The stack an observer reads when push calls onPush(e): the entry has been
\* pushed (`this.stack.push(entry)` precedes `this.options.onPush?.(entry)`).
OnPushSees(s, e) == Append(s, e)

\* remove calling onRemove before the splice.
OnRemoveSeesBefore(s, e) == s

\* The stack an observer reads when remove calls onRemove(e): the slot has
\* been spliced out (`this.stack.splice(index, 1)` precedes the call).
OnRemoveSees(s, e) == Splice(s, IndexOf(s, e))

\* The stack read by the observer an operation called on stack s, <<>> when
\* it called none.
Seen(s, calls) ==
  IF calls = <<>> THEN <<>>
  ELSE IF calls[1][1] = "onPush" THEN OnPushSees(s, calls[1][2])
  ELSE IF calls[1][1] = "onRemove" THEN OnRemoveSees(s, calls[1][2])
  ELSE <<>>

Op(name, e, o, res, calls, err) ==
  [op |-> name, e |-> e, cfg |-> o, res |-> res,
   pre |-> stack, preOpt |-> options, preInit |-> isInitialized,
   calls |-> calls, err |-> err, seen |-> Seen(stack, calls)]

NumPending == LET RECURSIVE Sum(_)
                  Sum(S) == IF S = {} THEN 0
                            ELSE LET x == CHOOSE x \in S : TRUE
                                 IN pending[x] + Sum(S \ {x})
              IN Sum(AllEntries)

\* Entry objects that exist: those of direct callers and those created so far.
Existing == DirectEntries \cup ((NumEntries + 1)..(NumEntries + fresh))

\* ------------------------------------------------------------- actions
Init ==
  /\ stack = <<>>
  /\ options = NoOptions
  /\ isInitialized = FALSE
  /\ pending = [e \in AllEntries |-> 0]
  /\ entry = 0
  /\ showing = FALSE
  /\ disposed = FALSE
  /\ fresh = 0
  /\ last = [op |-> "none", e |-> 0, cfg |-> NoOptions, res |-> "none",
             pre |-> <<>>, preOpt |-> NoOptions, preInit |-> FALSE,
             calls |-> <<>>, err |-> FALSE, seen |-> <<>>]

\* BackHandler.init(o)
DoInit(o) ==
  LET r == InitResult(isInitialized, options, o) IN
  /\ isInitialized' = r.isInitialized
  /\ options' = r.options
  /\ last' = Op("init", 0, o, "none", r.calls, r.err)
  /\ UNCHANGED <<stack, pending, entry, showing, disposed, fresh>>

\* install without the `isInitialized` test: init warns, bind runs again.
InstallNoGuard(o) ==
  LET r == InitResult(isInitialized, options, o) IN
  /\ isInitialized' = r.isInitialized
  /\ options' = r.options
  /\ last' = Op("install", 0, o, "none",
                r.calls \o <<<<"bind", o.fallback>>>>, r.err)
  /\ UNCHANGED <<stack, pending, entry, showing, disposed, fresh>>

\* BackHandler.install(app, o): init, then bind; nothing when initialized.
Install(o) ==
  /\ IF isInitialized
       THEN /\ last' = Op("install", 0, o, "none", <<>>, FALSE)
            /\ UNCHANGED <<isInitialized, options>>
       ELSE LET r == InitResult(isInitialized, options, o) IN
            /\ isInitialized' = r.isInitialized
            /\ options' = r.options
            /\ last' = Op("install", 0, o, "none",
                          r.calls \o <<<<"bind", o.fallback>>>>, r.err)
  /\ UNCHANGED <<stack, pending, entry, showing, disposed, fresh>>

\* BackHandler.destroy()
Destroy ==
  LET r == DestroyResult(stack, options, isInitialized) IN
  /\ stack' = r.stack
  /\ options' = r.options
  /\ isInitialized' = r.isInitialized
  /\ last' = Op("destroy", 0, NoOptions, "none", <<>>, FALSE)
  /\ UNCHANGED <<pending, entry, showing, disposed, fresh>>

\* BackHandler.push(e)
Push(e) ==
  LET r == PushResult(stack, options, e) IN
  /\ Len(stack) < MaxStack
  /\ stack' = r.stack
  /\ last' = Op("push", e, NoOptions, "none", r.calls, r.err)
  /\ UNCHANGED <<options, isInitialized, pending, entry, showing, disposed,
                 fresh>>

\* BackHandler.remove(e)
Remove(e) ==
  LET r == RemoveResult(stack, options, e) IN
  /\ stack' = r.stack
  /\ last' = Op("remove", e, NoOptions, "none", r.calls, r.err)
  /\ UNCHANGED <<options, isInitialized, pending, entry, showing, disposed,
                 fresh>>

\* onBackPress taking the top entry off the stack before awaiting its handler.
OnBackPressEager ==
  LET r == BackPressResult(stack, options) IN
  /\ r.entry /= 0 => NumPending < MaxDispatch
  /\ pending' = IF r.entry /= 0
                  THEN [pending EXCEPT ![r.entry] = @ + 1]
                  ELSE pending
  /\ stack' = IF r.entry /= 0 THEN SubSeq(stack, 1, Len(stack) - 1) ELSE stack
  /\ last' = Op("onBackPress", r.entry, NoOptions, "none", r.calls, r.err)
  /\ UNCHANGED <<options, isInitialized, entry, showing, disposed, fresh>>

\* BackHandler.onBackPress(), up to `await entry.handler()`
OnBackPress ==
  LET r == BackPressResult(stack, options) IN
  /\ r.entry /= 0 => NumPending < MaxDispatch
  /\ pending' = IF r.entry /= 0
                  THEN [pending EXCEPT ![r.entry] = @ + 1]
                  ELSE pending
  /\ last' = Op("onBackPress", r.entry, NoOptions, "none", r.calls, r.err)
  /\ UNCHANGED <<stack, options, isInitialized, entry, showing, disposed,
                 fresh>>

\* BackHandler.onBackPress(), from the handler settling to the end
Settle(e, res) ==
  LET r == SettleResult(stack, options, e, res) IN
  /\ pending[e] > 0
  /\ pending' = [pending EXCEPT ![e] = @ - 1]
  /\ stack' = r.stack
  /\ last' = Op("settle", e, NoOptions, res, r.calls, r.err)
  /\ UNCHANGED <<options, isInitialized, entry, showing, disposed, fresh>>

\* push() that creates the entry object once and pushes it again afterwards.
ScopedPushReuses ==
  LET e == IF entry /= 0 THEN entry ELSE NumEntries + fresh + 1
      r == PushResult(stack, options, e) IN
  /\ fresh < MaxFresh
  /\ Len(stack) < MaxStack
  /\ fresh' = IF entry /= 0 THEN fresh ELSE fresh + 1
  /\ entry' = e
  /\ stack' = r.stack
  /\ last' = Op("scopedPush", e, NoOptions, "none", r.calls, r.err)
  /\ UNCHANGED <<options, isInitialized, pending, showing, disposed>>

\* useBackHandler(...).push(): a new entry object, then BackHandler.push
ScopedPush ==
  LET e == NumEntries + fresh + 1
      r == PushResult(stack, options, e) IN
  /\ fresh < MaxFresh
  /\ Len(stack) < MaxStack
  /\ fresh' = fresh + 1
  /\ entry' = e
  /\ stack' = r.stack
  /\ last' = Op("scopedPush", e, NoOptions, "none", r.calls, r.err)
  /\ UNCHANGED <<options, isInitialized, pending, showing, disposed>>

\* remove() that keeps the reference: `entry = null` is missing.
ScopedRemoveResultKeeps(s, opt, en) ==
  IF en /= 0
    THEN [stack |-> RemoveResult(s, opt, en).stack,
          calls |-> RemoveResult(s, opt, en).calls,
          err |-> RemoveResult(s, opt, en).err,
          entry |-> en]
    ELSE [stack |-> s, calls |-> <<>>, err |-> FALSE, entry |-> en]

\* remove() that removes whatever is on top instead of the owned entry.
ScopedRemoveResultTop(s, opt, en) ==
  IF Len(s) > 0
    THEN [stack |-> RemoveResult(s, opt, s[Len(s)]).stack,
          calls |-> RemoveResult(s, opt, s[Len(s)]).calls,
          err |-> RemoveResult(s, opt, s[Len(s)]).err,
          entry |-> IF RemoveResult(s, opt, s[Len(s)]).err THEN en ELSE 0]
    ELSE [stack |-> s, calls |-> <<>>, err |-> FALSE, entry |-> 0]

\* The body of useBackHandler's remove(): when BackHandler.remove throws,
\* `entry = null` is not reached.
ScopedRemoveResult(s, opt, en) ==
  IF en /= 0
    THEN [stack |-> RemoveResult(s, opt, en).stack,
          calls |-> RemoveResult(s, opt, en).calls,
          err |-> RemoveResult(s, opt, en).err,
          entry |-> IF RemoveResult(s, opt, en).err THEN en ELSE 0]
    ELSE [stack |-> s, calls |-> <<>>, err |-> FALSE, entry |-> en]

\* useBackHandler(...).remove()
ScopedRemove ==
  LET r == ScopedRemoveResult(stack, options, entry) IN
  /\ stack' = r.stack
  /\ entry' = r.entry
  /\ last' = Op("scopedRemove", entry, NoOptions, "none", r.calls, r.err)
  /\ UNCHANGED <<options, isInitialized, pending, showing, disposed, fresh>>

\* An onScopeDispose callback that calls remove() whatever `showing` is.
DisposeAlways ==
  LET r == ScopedRemoveResult(stack, options, entry) IN
  /\ ~disposed
  /\ disposed' = TRUE
  /\ stack' = r.stack
  /\ entry' = r.entry
  /\ last' = Op("dispose", entry, NoOptions, "none", r.calls, r.err)
  /\ UNCHANGED <<options, isInitialized, pending, showing, fresh>>

\* The onScopeDispose callback: `toValue(showing) && remove()`
Dispose ==
  LET r == IF showing THEN ScopedRemoveResult(stack, options, entry)
           ELSE [stack |-> stack, calls |-> <<>>, err |-> FALSE,
                 entry |-> entry] IN
  /\ ~disposed
  /\ disposed' = TRUE
  /\ stack' = r.stack
  /\ entry' = r.entry
  /\ last' = Op("dispose", entry, NoOptions, "none", r.calls, r.err)
  /\ UNCHANGED <<options, isInitialized, pending, showing, fresh>>

\* The caller changes the visibility source.
SetShowing(v) ==
  /\ showing /= v
  /\ showing' = v
  /\ last' = Op("setShowing", 0, NoOptions, "none", <<>>, FALSE)
  /\ UNCHANGED <<stack, options, isInitialized, pending, entry, disposed,
                 fresh>>

\* The operations of the BackHandler class.
Next ==
  \/ \E o \in BackHandlerOptions : DoInit(o)
  \/ \E o \in BackHandlerOptions : Install(o)
  \/ Destroy
  \/ \E e \in Existing : Push(e)
  \/ \E e \in Existing : Remove(e)
  \/ OnBackPress
  \/ \E e \in AllEntries, res \in HandlerResults : Settle(e, res)

\* A scoped binding next to one direct caller: the caller owns one entry and
\* configurations with one fallback, and starts a dispatch when none is
\* pending.
ScopedOptions == {o \in BackHandlerOptions : o.fallback = 1}

NextScoped ==
  \/ \E o \in ScopedOptions : DoInit(o)
  \/ Destroy
  \/ Push(1)
  \/ Remove(1)
  \/ (NumPending = 0 /\ OnBackPress)
  \/ \E e \in AllEntries, res \in HandlerResults : Settle(e, res)
  \/ ScopedPush
  \/ ScopedRemove
  \/ Dispose
  \/ \E v \in BOOLEAN : SetShowing(v)

\* The registry driven by direct callers.
Spec == Init /\ [][Next]_vars

\* The registry driven by direct callers and by one scoped binding.
SpecScoped == Init /\ [][NextScoped]_vars

\* A handler's promise settles and the continuation of onBackPress then runs:
\* the dispatches awaiting an entry's handler do not wait forever.
HandlersSettle ==
  \A e \in DirectEntries : WF_vars(\E res \in HandlerResults : Settle(e, res))

\* The registry with one configuration, for the runs that need fairness.
LiveOptions == {[fallback |-> 1, onPush |-> FALSE, onRemove |-> TRUE]}

NextLive ==
  \/ \E o \in LiveOptions : DoInit(o)
  \/ Destroy
  \/ (Len(stack) < LiveDepth /\ \E e \in DirectEntries : Push(e))
  \/ \E e \in DirectEntries : Remove(e)
  \/ OnBackPress
  \/ \E e \in AllEntries, res \in HandlerResults : Settle(e, res)

SpecLive == Init /\ [][NextLive]_vars /\ HandlersSettle

\* ------------------------------------------------------------ properties
\* The operations that call BackHandler.push / BackHandler.remove.
PushOps == {"push", "scopedPush"}
RemoveOps == {"remove", "settle", "scopedRemove", "dispose"}

NonFalse == {"undefined", "true"}
Retained == {"false", "reject"}

\* Calls of the last operation to the callback `name`.
CallsTo(name) == {i \in 1..Len(last.calls) : last.calls[i][1] = name}
HandlerCalls == CallsTo("handler") \cup CallsTo("onHide")

Top(s) == s[Len(s)]
Front(s) == SubSeq(s, 1, Len(s) - 1)

\* t is s with exactly one slot taken out and the others in place.
OneSlotRemoved(s, t) ==
  /\ Len(t) = Len(s) - 1
  /\ \E i \in 1..Len(s) :
       \A j \in 1..Len(t) : t[j] = IF j < i THEN s[j] ELSE s[j + 1]

\* C1: a dispatch on a non-empty stack invokes the handler of the last slot
\* exactly once and no other handler, also when it resumes; when that entry
\* sits in the top slot only and its handler resolves to a non-false value,
\* the entry is gone and the slots below it are the stack.
C1_LifoDispatch ==
  /\ (last.op = "onBackPress" /\ last.pre /= <<>>) =>
       /\ last.e = Top(last.pre)
       /\ last.calls = <<HandlerOf(Top(last.pre))>>
       /\ stack = last.pre
  /\ last.op = "settle" => HandlerCalls = {}
  /\ (/\ last.op = "settle" /\ last.res \in NonFalse
      /\ last.pre /= <<>> /\ Top(last.pre) = last.e
      /\ Count(last.pre, last.e) = 1) =>
       /\ stack = Front(last.pre)
       /\ Count(stack, last.e) = 0

\* A, B pushed, B's handler resolved to a non-false value: A is the top.
C1_Witness ==
  /\ last.op = "settle" /\ last.res \in NonFalse
  /\ Len(last.pre) = 2 /\ last.pre[2] = last.e /\ last.pre[1] /= last.e
  /\ stack = <<last.pre[1]>>

\* C2 as stated, for an initialized registry: whenever the handler resolves
\* to a non-false value the stack gets one slot shorter, the entry is off the
\* stack and a configured onRemove fires for it.
C2_Original ==
  (last.op = "settle" /\ last.res \in NonFalse /\ last.preInit) =>
    /\ Len(stack) = Len(last.pre) - 1
    /\ Count(stack, last.e) = 0
    /\ last.preOpt.onRemove => last.calls = <<<<"onRemove", last.e>>>>

\* C2 (amended): when the handler resolves to a non-false value and the entry
\* is still on the stack, the dispatch takes out one slot of it (the stack is
\* one shorter, the entry has one occurrence fewer, so it is off the stack
\* when it held a single slot) and onRemove fires once for it exactly when
\* the active configuration has that observer; when the entry has already
\* left the stack nothing changes and no observer fires.
C2_RemovesOnNonFalse ==
  (last.op = "settle" /\ last.res \in NonFalse) =>
    IF Count(last.pre, last.e) > 0
      THEN /\ Len(stack) = Len(last.pre) - 1
           /\ Count(stack, last.e) = Count(last.pre, last.e) - 1
           /\ OneSlotRemoved(last.pre, stack)
           /\ last.calls = IF last.preOpt.onRemove
                             THEN <<<<"onRemove", last.e>>>> ELSE <<>>
      ELSE stack = last.pre /\ last.calls = <<>>

\* The handler returned no value; the entry left the stack and onRemove fired.
C2_Witness ==
  /\ last.op = "settle" /\ last.res = "undefined"
  /\ Count(last.pre, last.e) = 1 /\ Count(stack, last.e) = 0
  /\ last.calls = <<<<"onRemove", last.e>>>>

\* C3: when the handler returns false or rejects, the dispatch leaves the
\* stack as it was, invokes neither onRemove nor fallback, and keeps the
\* configuration.
C3_RetainedOutcomes ==
  (last.op = "settle" /\ last.res \in Retained) =>
    /\ stack = last.pre
    /\ last.calls = <<>>
    /\ options = last.preOpt /\ isInitialized = last.preInit

\* A rejected handler of the top entry, with onRemove configured.
C3_Witness ==
  /\ last.op = "settle" /\ last.res = "reject"
  /\ Len(stack) >= 2 /\ Top(stack) = last.e
  /\ options.onRemove

\* C4: a dispatch that starts on a non-empty stack never invokes fallback,
\* neither when it starts nor when its handler settles, whatever the result
\* and whatever the stack has become meanwhile.
C4_NoFallbackWhenNonEmpty ==
  ((last.op = "onBackPress" /\ last.pre /= <<>>) \/ last.op = "settle") =>
    CallsTo("fallback") = {}

\* The handler settles after the stack was emptied under it, or the dispatch
\* itself removes the only entry: the stack is empty and a fallback exists.
C4_Witness ==
  /\ last.op = "settle" /\ last.res \in NonFalse
  /\ stack = <<>> /\ isInitialized

\* C5: a dispatch on the empty stack of an initialized registry invokes the
\* configured fallback exactly once and nothing else, completes, starts no
\* handler and leaves the stack empty.
C5_EmptyStackFallback ==
  (last.op = "onBackPress" /\ last.pre = <<>> /\ last.preInit) =>
    /\ last.calls = <<<<"fallback", last.preOpt.fallback>>>>
    /\ ~last.err
    /\ last.e = 0
    /\ stack = <<>>
    /\ options = last.preOpt

\* An empty-stack dispatch under a configuration that has both observers.
C5_Witness ==
  /\ last.op = "onBackPress" /\ last.pre = <<>> /\ last.preInit
  /\ options.onPush /\ options.onRemove
  /\ Len(last.calls) = 1

\* C6: a push adds one slot at the end and keeps every other slot; a remove
\* (direct, scoped or by dispatch) takes out at most one slot and keeps the
\* others in their order.
C6_InsertionOrder ==
  /\ last.op \in PushOps =>
       /\ Len(stack) = Len(last.pre) + 1
       /\ Front(stack) = last.pre
       /\ Top(stack) = last.e
  /\ last.op \in RemoveOps =>
       stack = last.pre \/ OneSlotRemoved(last.pre, stack)

\* The middle slot of three removed: the slots around it stay in place.
C6_Witness ==
  /\ last.op = "remove" /\ Len(last.pre) = 3
  /\ last.pre[2] = last.e /\ last.pre[1] /= last.e
  /\ stack = <<last.pre[1], last.pre[3]>>

\* C7: under a configuration with onPush, an operation calls onPush once if
\* it is a push and never otherwise; under a configuration with onRemove, a
\* remove or dispatch calls onRemove once per slot it took out and no other
\* operation calls it; the observer gets the entry of the operation; a remove
\* of an entry that is not on the stack calls no observer.
C7_ObserverAccounting ==
  /\ last.preOpt.onPush =>
       Cardinality(CallsTo("onPush")) = IF last.op \in PushOps THEN 1 ELSE 0
  /\ last.preOpt.onRemove =>
       Cardinality(CallsTo("onRemove")) =
         IF last.op \in RemoveOps THEN Len(last.pre) - Len(stack) ELSE 0
  /\ \A i \in CallsTo("onPush") \cup CallsTo("onRemove") :
       last.calls[i][2] = last.e
  /\ (last.op \in RemoveOps /\ Count(last.pre, last.e) = 0) =>
       (CallsTo("onPush") \cup CallsTo("onRemove")) = {}

\* A remove of an absent entry while onRemove is configured and other
\* entries are on the stack.
C7_Witness ==
  /\ last.op = "remove" /\ last.preOpt.onRemove /\ last.preOpt.onPush
  /\ last.pre /= <<>> /\ Count(last.pre, last.e) = 0

\* C8: remove of an entry that is not on the stack raises nothing and leaves
\* the stack, the configuration and the initialization flag as they were,
\* whether or not the registry is initialized.
C8_RemoveAbsentNoOp ==
  (last.op = "remove" /\ Count(last.pre, last.e) = 0) =>
    /\ ~last.err
    /\ stack = last.pre
    /\ options = last.preOpt
    /\ isInitialized = last.preInit
    /\ last.calls = <<>>

\* An absent entry removed from a non-empty stack of an uninitialized
\* registry.
C8_Witness ==
  /\ last.op = "remove" /\ Count(last.pre, last.e) = 0
  /\ ~last.preInit /\ last.pre /= <<>>

\* C9: init on an initialized registry raises nothing and keeps the stack,
\* the flag and the configuration; the fallback an empty-stack dispatch
\* invokes is the one of the configuration that was active before it.
C9_ReinitKeepsConfig ==
  /\ (last.op = "init" /\ last.preInit) =>
       /\ ~last.err
       /\ stack = last.pre
       /\ isInitialized
       /\ options = last.preOpt
  /\ \A i \in CallsTo("fallback") :
       last.calls[i][2] = last.preOpt.fallback /\ options = last.preOpt

\* A second init with another fallback and other observers, entries pushed.
C9_Witness ==
  /\ last.op = "init" /\ last.preInit
  /\ last.cfg.fallback /= options.fallback
  /\ last.cfg.onPush /= options.onPush
  /\ stack /= <<>>

\* C10: destroy leaves the stack empty, no configuration and the flag false,
\* so a destroy of a pristine registry changes nothing; an init on a registry
\* that is not initialized (as after destroy) makes its argument the active
\* configuration.
C10_DestroyResets ==
  /\ last.op = "destroy" =>
       /\ stack = <<>> /\ options = NoOptions /\ ~isInitialized
       /\ ~last.err
  /\ (last.op = "destroy" /\ last.pre = <<>> /\ ~last.preInit) =>
       /\ stack = last.pre /\ options = last.preOpt
       /\ isInitialized = last.preInit
  /\ (last.op = "init" /\ ~last.preInit) =>
       /\ options = last.cfg /\ isInitialized /\ ~last.err
       /\ stack = last.pre

\* A destroy of an initialized registry that held entries.
C10_Witness ==
  /\ last.op = "destroy" /\ last.preInit /\ Len(last.pre) >= 2
  /\ last.preOpt.onRemove

\* C11: on an uninitialized registry the operations that read the
\* configuration raise the 'not initialized' error: push does, remove of an
\* entry that is on the stack does, and onBackPress on the empty stack fails
\* with it, calling nothing.
C11_UninitializedFailsLoudly ==
  /\ (last.op \in PushOps /\ ~last.preInit) => last.err
  /\ (last.op = "remove" /\ ~last.preInit /\ Count(last.pre, last.e) > 0) =>
       last.err
  /\ (last.op = "onBackPress" /\ ~last.preInit /\ last.pre = <<>>) =>
       last.err /\ last.calls = <<>> /\ last.e = 0

\* A dispatch on the empty stack of an uninitialized registry has failed.
C11_Witness ==
  /\ last.op = "onBackPress" /\ ~last.preInit /\ last.pre = <<>>
  /\ last.err

\* C12 as stated: no dispatch, neither before nor after its handler settled,
\* ends in an error.
C12_Original ==
  last.op \in {"onBackPress", "settle"} => ~last.err

\* C12 (amended): a dispatch that starts on a non-empty stack or on an
\* initialized registry never ends in an error, whatever its handler does
\* and even when the removal it performs raises; the only dispatch that
\* fails is the one on the empty stack of an uninitialized registry.
C12_DispatchErrors ==
  last.op \in {"onBackPress", "settle"} =>
    (last.err <=>
       (last.op = "onBackPress" /\ last.pre = <<>> /\ ~last.preInit))

\* The handler resolved and the dispatch removed the entry from an
\* uninitialized registry, where remove raises: the dispatch completed.
C12_Witness ==
  /\ last.op = "settle" /\ last.res \in NonFalse
  /\ ~last.preInit /\ Count(last.pre, last.e) > 0
  /\ Len(stack) = Len(last.pre) - 1
  /\ ~last.err

\* C13: install on an initialized registry invokes nothing and changes
\* nothing; install on an uninitialized one invokes bind once and makes its
\* options the configuration; and only destroy ends being initialized, so
\* between two destroys bind runs for the first install alone.
C13_InstallOnce ==
  /\ (last.op = "install" /\ last.preInit) =>
       /\ last.calls = <<>> /\ ~last.err
       /\ options = last.preOpt /\ isInitialized /\ stack = last.pre
  /\ (last.op = "install" /\ ~last.preInit) =>
       /\ last.calls = <<<<"bind", last.cfg.fallback>>>>
       /\ options = last.cfg /\ isInitialized
  /\ (last.preInit /\ last.op /= "destroy") =>
       isInitialized /\ options = last.preOpt
  /\ CallsTo("bind") /= {} => (last.op = "install" /\ ~last.preInit)

\* A second install with other options.
C13_Witness ==
  /\ last.op = "install" /\ last.preInit
  /\ last.cfg.fallback /= options.fallback
  /\ last.cfg.onRemove /= options.onRemove

\* The slots of s other than those holding e, in order.
Without(s, e) == SelectSeq(s, LAMBDA x : x /= e)

\* t is s with the lowest slot that holds e taken out.
FirstSlotRemoved(s, e, t) ==
  /\ Len(t) = Len(s) - 1
  /\ \E i \in 1..Len(s) :
       /\ s[i] = e /\ \A j \in 1..(i - 1) : s[j] /= e
       /\ \A j \in 1..Len(t) : t[j] = IF j < i THEN s[j] ELSE s[j + 1]

\* C14: when the scope is disposed with the visibility true, an owned entry
\* that is on the stack is removed (one slot less, that entry's) and the
\* binding's remove() has run (the reference is cleared unless the removal
\* raised); with the visibility false nothing happens: the stack and the
\* owned reference are as they were and no callback runs.
C14_DisposeRetracts ==
  last.op = "dispose" =>
    IF showing
      THEN /\ IF last.e /= 0 /\ Count(last.pre, last.e) > 0
                THEN /\ Len(stack) = Len(last.pre) - 1
                     /\ Count(stack, last.e) = Count(last.pre, last.e) - 1
                     /\ Without(stack, last.e) = Without(last.pre, last.e)
                ELSE stack = last.pre /\ ~last.err
           /\ entry = IF last.err THEN last.e ELSE 0
      ELSE /\ stack = last.pre
           /\ entry = last.e
           /\ last.calls = <<>> /\ ~last.err

\* A scope disposed while showing, its entry pushed: the entry is gone.
C14_Witness ==
  /\ last.op = "dispose" /\ showing
  /\ last.e /= 0 /\ Count(last.pre, last.e) = 1
  /\ Len(stack) = Len(last.pre) - 1 /\ Count(stack, last.e) = 0
  /\ entry = 0

\* C15: a binding's push() appends one entry that was not on the stack, is
\* a new object carrying onHide, and becomes the owned entry; a remove()
\* that finds the owned entry on top, as right after the push, leaves the
\* stack the push found; a remove() of a binding that owns no entry changes
\* nothing and calls nothing.
C15_ScopedRoundTrip ==
  /\ last.op = "scopedPush" =>
       /\ stack = Append(last.pre, last.e)
       /\ Count(last.pre, last.e) = 0
       /\ last.e = NumEntries + fresh
       /\ HandlerOf(last.e) = <<"onHide", 0>>
       /\ entry = last.e
  /\ (last.op = "scopedRemove" /\ last.e /= 0 /\ last.pre /= <<>>
      /\ Top(last.pre) = last.e) =>
       /\ stack = Front(last.pre)
       /\ Count(stack, last.e) = 0
  /\ (last.op = "scopedRemove" /\ last.e = 0) =>
       /\ stack = last.pre /\ entry = 0
       /\ last.calls = <<>> /\ ~last.err

\* remove() right above another entry: the stack is what push() had found.
C15_Witness ==
  /\ last.op = "scopedRemove" /\ last.e /= 0
  /\ Len(last.pre) >= 2 /\ Top(last.pre) = last.e
  /\ stack = Front(last.pre)
  /\ entry = 0

\* C16 as stated, for an initialized registry: no entry holds two slots.
C16_Original ==
  isInitialized => \A x \in AllEntries : Count(stack, x) <= 1

\* C16 (amended): an operation that finds every entry in at most one slot
\* leaves every entry in at most one slot, unless it is a push of an entry
\* that is already on the stack; that push adds a second slot.
C16_UniqueUnlessPushedAgain ==
  /\ ((\A x \in AllEntries : Count(last.pre, x) <= 1)
      /\ ~(last.op \in PushOps /\ Count(last.pre, last.e) > 0)) =>
       \A x \in AllEntries : Count(stack, x) <= 1
  /\ (last.op \in PushOps /\ Count(last.pre, last.e) > 0) =>
       Count(stack, last.e) = Count(last.pre, last.e) + 1

\* Two distinct entries pushed, one slot each.
C16_Witness ==
  /\ last.op = "push" /\ Len(stack) >= 2 /\ last.preInit
  /\ Count(last.pre, last.e) = 0
  /\ \A x \in AllEntries : Count(stack, x) <= 1

\* C17 as stated, in the states its first example names (a dispatch on an
\* initialized registry has just completed): the owned reference is non-null
\* only while its entry is on the stack.
C17_Original ==
  (last.op = "settle" /\ last.preInit /\ entry /= 0) => Count(stack, entry) > 0

\* C17 (amended): the owned reference is set by the binding's push() to the
\* entry it pushed, cleared by the binding's remove() (manual, or on disposal
\* while showing) when that completes, and changed by nothing else: a
\* dispatch, a direct remove or destroy() that takes the entry off the stack
\* leaves the reference non-null.
C17_OwnedReference ==
  [][/\ last'.op \notin {"scopedPush", "scopedRemove", "dispose"} =>
          entry' = entry
     /\ last'.op = "scopedPush" =>
          entry' /= 0 /\ entry' = Top(stack') /\ entry' /= entry
     /\ (last'.op = "scopedRemove" /\ ~last'.err) =>
          entry' = 0 /\ (entry /= 0 => Count(stack', entry) = Count(stack, entry) - 1
                                       \/ Count(stack, entry) = 0)
     /\ last'.op = "dispose" =>
          entry' = IF showing /\ ~last'.err THEN 0 ELSE entry]_vars

\* A dispatch has removed the binding's entry; the reference is still set.
C17_Witness ==
  /\ last.op = "settle" /\ last.e = entry /\ entry /= 0
  /\ last.preInit
  /\ Count(last.pre, entry) = 1 /\ Count(stack, entry) = 0

\* C18 as stated, for an initialized registry and for a removal that is the
\* last operation before the handler resolves: when an operation (remove,
\* destroy, or the completion of an overlapping dispatch) has taken a slot of
\* entry x off the stack while a dispatch on x is pending, and the handler of
\* that dispatch then resolves to a non-false value, the stack is not changed
\* again, no onRemove is called and no error is raised.
C18_Original ==
  [][\A x \in AllEntries :
       (/\ last.op \in RemoveOps \cup {"destroy"}
        /\ last.preInit /\ isInitialized
        /\ Count(stack, x) < Count(last.pre, x)
        /\ pending[x] > 0
        /\ last'.op = "settle" /\ last'.e = x /\ last'.res \in NonFalse) =>
         /\ stack' = stack
         /\ CallsTo("onRemove")' = {}
         /\ ~last'.err]_vars

\* C18 (amended): when a handler resolves to a non-false value, the dispatch
\* changes nothing and calls no observer if the inspected entry is off the
\* stack by then (another operation removed its slots and it was not pushed
\* again); if the entry still holds a slot (it was pushed twice, or pushed
\* again), the dispatch takes out the lowest such slot and calls onRemove for
\* it once more; either way no error is raised and no other entry loses a
\* slot.
C18_SafeDoubleRemove ==
  (last.op = "settle" /\ last.res \in NonFalse) =>
    /\ ~last.err
    /\ Without(stack, last.e) = Without(last.pre, last.e)
    /\ Count(last.pre, last.e) = 0 =>
         /\ stack = last.pre
         /\ last.calls = <<>>
    /\ Count(last.pre, last.e) > 0 =>
         /\ FirstSlotRemoved(last.pre, last.e, stack)
         /\ last.calls = IF last.preOpt.onRemove
                            THEN <<<<"onRemove", last.e>>>> ELSE <<>>

\* The inspected entry was removed under a configuration with onRemove and
\* other entries are on the stack when the handler resolves.
C18_Witness ==
  /\ last.op = "settle" /\ last.res \in NonFalse
  /\ Count(last.pre, last.e) = 0 /\ last.pre /= <<>>
  /\ last.preOpt.onRemove

\* C19 as stated, for an initialized registry: when the handler resolves to
\* a non-false value with the inspected entry on top, the stack loses its
\* top slot and keeps the others.
C19_Original ==
  (/\ last.op = "settle" /\ last.res \in NonFalse /\ last.preInit
   /\ last.pre /= <<>> /\ Top(last.pre) = last.e) =>
    stack = Front(last.pre)

\* C19 (amended): when the handler resolves to a non-false value with the
\* inspected entry on top, the dispatch takes out the lowest slot holding
\* that entry; that is the top slot, and the stack is the one before without
\* its top, when the entry holds no lower slot.
C19_RemovesLowestSlot ==
  (/\ last.op = "settle" /\ last.res \in NonFalse
   /\ last.pre /= <<>> /\ Top(last.pre) = last.e) =>
    /\ FirstSlotRemoved(last.pre, last.e, stack)
    /\ Count(last.pre, last.e) = 1 => stack = Front(last.pre)
    /\ Count(last.pre, last.e) > 1 => Top(stack) = last.e

\* The inspected entry held the bottom and the top slot: the bottom one went.
C19_Witness ==
  /\ last.op = "settle" /\ last.res \in NonFalse
  /\ Len(last.pre) = 3 /\ last.pre[3] = last.e /\ last.pre[1] = last.e
  /\ last.pre[2] /= last.e
  /\ stack = <<last.pre[2], last.pre[3]>>

\* C20: on a non-false resolution the dispatch takes out at most one slot,
\* one of the entry whose handler it invoked, wherever it sits; every other
\* entry keeps its slots and their order, and an entry above it stays on top.
C20_MutationTolerated ==
  (last.op = "settle" /\ last.res \in NonFalse) =>
    /\ Without(stack, last.e) = Without(last.pre, last.e)
    /\ stack = last.pre \/ FirstSlotRemoved(last.pre, last.e, stack)
    /\ (last.pre /= <<>> /\ Top(last.pre) /= last.e) =>
         (stack /= <<>> /\ Top(stack) = Top(last.pre))

\* Another entry sits above the inspected one when its handler resolves: the
\* inspected entry goes, the one above stays on top.
C20_Witness ==
  /\ last.op = "settle" /\ last.res \in NonFalse
  /\ Len(last.pre) >= 2 /\ Top(last.pre) /= last.e
  /\ Count(last.pre, last.e) = 1 /\ Count(stack, last.e) = 0
  /\ Top(stack) = Top(last.pre)

\* Dispatches awaiting the handler of x before the last operation.
PendingBefore(x) ==
  pending[x] - (IF last.op = "onBackPress" /\ last.e = x THEN 1 ELSE 0)

\* C21: a dispatch that starts while another one awaits the handler of the
\* top entry inspects that same entry and calls its handler again, without
\* fallback and without touching the stack; and when a handler resolves to a
\* non-false value for an entry with at most one slot, the slot, if still
\* there, is removed and onRemove is called for it once, and when the slot is
\* already gone (the overlapping dispatch removed it) nothing is removed and
\* no observer is called; the other entries keep their slots either way.
C21_OverlappingDispatches ==
  /\ (/\ last.op = "onBackPress" /\ last.pre /= <<>>
      /\ PendingBefore(Top(last.pre)) >= 1) =>
       /\ last.e = Top(last.pre)
       /\ last.calls = <<HandlerOf(last.e)>>
       /\ stack = last.pre
       /\ pending[last.e] >= 2
  /\ (/\ last.op = "settle" /\ last.res \in NonFalse
      /\ Count(last.pre, last.e) <= 1) =>
       /\ Count(stack, last.e) = 0
       /\ Len(last.pre) - Len(stack) = Count(last.pre, last.e)
       /\ Without(stack, last.e) = Without(last.pre, last.e)
       /\ Cardinality(CallsTo("onRemove")) =
            (IF last.preOpt.onRemove THEN Count(last.pre, last.e) ELSE 0)
       /\ \A i \in CallsTo("onRemove") : last.calls[i] = <<"onRemove", last.e>>

\* Two dispatches await the handler of the same single-slot entry; the first
\* one completes with a non-false value under a configuration with onRemove:
\* the entry's slot goes, onRemove is called once, the entry below stays and
\* the other dispatch is still pending.
C21_Witness ==
  /\ last.op = "settle" /\ last.res \in NonFalse
  /\ last.preInit /\ last.preOpt.onRemove
  /\ pending[last.e] >= 1
  /\ Count(last.pre, last.e) = 1 /\ Count(stack, last.e) = 0
  /\ Top(last.pre) = last.e /\ stack /= <<>>
  /\ last.calls = <<<<"onRemove", last.e>>>>

\* C22: a dispatch completes only in the step in which its handler settles,
\* and that step completes exactly one dispatch; starting a dispatch leaves
\* the stack alone, and a slot leaves the stack only by remove, by destroy or
\* by a dispatch on that entry whose handler settled with a non-false value,
\* so a dispatch whose handler has not settled removes nothing; and when
\* handlers settle, a dispatch awaiting an entry's handler leads to the
\* completion of a dispatch on that entry.
C22_CompletionFollowsSettling ==
  /\ [][/\ last'.op = "onBackPress" => stack' = stack
        /\ \A x \in AllEntries :
             pending'[x] < pending[x] => (last'.op = "settle" /\ last'.e = x)
        /\ last'.op = "settle" =>
             pending' = [pending EXCEPT ![last'.e] = @ - 1]
        /\ \A x \in AllEntries :
             Count(stack', x) < Count(stack, x) =>
               /\ last'.op \in RemoveOps \cup {"destroy"}
               /\ last'.op = "settle" =>
                    (last'.e = x /\ last'.res \in NonFalse)]_vars
  /\ \A e \in DirectEntries :
       (pending[e] > 0) ~> (last.op = "settle" /\ last.e = e)

\* A dispatch completed when its handler rejected: no dispatch is pending any
\* more and the inspected entry kept its slot on an initialized registry.
C22_Witness ==
  /\ last.op = "settle" /\ last.res = "reject" /\ last.preInit
  /\ NumPending = 0
  /\ Count(stack, last.e) = 1 /\ stack = last.pre

\* C23: an observer runs after the mutation it reports: the stack an onPush
\* observer reads has the pushed entry as its top slot and is the stack the
\* push leaves; the stack an onRemove observer reads is one slot shorter than
\* the stack before the removal, holds one slot less of the removed entry and
\* is the stack the removal leaves.
C23_ObserversAfterMutation ==
  /\ \A i \in CallsTo("onPush") :
       /\ last.seen /= <<>>
       /\ Top(last.seen) = last.calls[i][2]
       /\ Len(last.seen) = Len(last.pre) + 1
       /\ last.seen = stack
  /\ \A i \in CallsTo("onRemove") :
       /\ Len(last.seen) = Len(last.pre) - 1
       /\ Count(last.seen, last.calls[i][2]) =
            Count(last.pre, last.calls[i][2]) - 1
       /\ last.seen = stack

\* remove took the only slot off the stack and called onRemove: the observer
\* reads an empty stack.
C23_Witness ==
  /\ last.op = "remove" /\ last.calls = <<<<"onRemove", last.e>>>>
  /\ last.pre = <<last.e>>
  /\ last.seen = <<>> /\ stack = <<>>

\* C24: every push() of a binding pushes an entry object created by that call
\* (never on the stack before, the newest one) and leaves the earlier entries
\* on their slots; the binding holds no entry or the newest one, never an
\* earlier one; and remove(), manual or on disposal, takes slots only from
\* the entry the binding holds, so entries of earlier push() calls stay.
C24_RepeatedScopedPush ==
  /\ entry \in {0, NumEntries + fresh}
  /\ last.op = "scopedPush" =>
       /\ last.e = NumEntries + fresh
       /\ Count(last.pre, last.e) = 0
       /\ stack = Append(last.pre, last.e)
       /\ entry = last.e
  /\ last.op \in {"scopedRemove", "dispose"} =>
       /\ last.e \in {0, NumEntries + fresh}
       /\ \A x \in AllEntries \ {last.e} : Count(stack, x) = Count(last.pre, x)
       /\ Without(stack, last.e) = Without(last.pre, last.e)
       /\ (last.e /= 0 /\ (last.op = "scopedRemove" \/ showing)) =>
            Count(stack, last.e) = 0

\* Two push() calls left two entries on the stack and remove() retracted the
\* second one: the first entry still holds its slot and the binding holds no
\* entry any more.
C24_Witness ==
  /\ last.op = "scopedRemove" /\ last.e = NumEntries + 2
  /\ Count(last.pre, NumEntries + 1) = 1 /\ Count(last.pre, last.e) = 1
  /\ Count(stack, NumEntries + 1) = 1 /\ Count(stack, last.e) = 0
  /\ entry = 0

\* C25: on an initialized registry, pushing an entry that is already on the
\* stack raises no error and appends one more slot of it; remove(entry) on an
\* entry that is on the stack removes exactly one slot, the one nearest the
\* bottom, so an entry with k slots still has k - 1 after one removal and is
\* off the stack only when its count has gone down to zero one by one.
C25_DuplicateRegistrations ==
  /\ (last.op = "push" /\ last.preInit /\ Count(last.pre, last.e) > 0) =>
       /\ ~last.err
       /\ stack = Append(last.pre, last.e)
       /\ Count(stack, last.e) = Count(last.pre, last.e) + 1
  /\ (last.op = "remove" /\ Count(last.pre, last.e) > 0) =>
       /\ Count(stack, last.e) = Count(last.pre, last.e) - 1
       /\ Len(stack) = Len(last.pre) - 1
       /\ FirstSlotRemoved(last.pre, last.e, stack)
       /\ (Count(stack, last.e) = 0) = (Count(last.pre, last.e) = 1)

\* An entry holds the bottom and the top slot with another entry between
\* them; remove takes the bottom slot and the entry is still on the stack.
C25_Witness ==
  /\ last.op = "remove" /\ last.preInit
  /\ Len(last.pre) = 3 /\ last.pre[1] = last.e /\ last.pre[3] = last.e
  /\ last.pre[2] /= last.e
  /\ stack = <<last.pre[2], last.e>>

\* C26: while the registry is not initialized the stack is empty, and an
\* operation that fails with the 'not initialized' error leaves the stack as
\* it found it.
C26_UninitializedStackEmpty ==
  /\ ~isInitialized => stack = <<>>
  /\ (last.err /\ ~last.preInit) => stack = last.pre

\* C27: when a handler settles, with any outcome, and the inspected entry is
\* not on the stack (as after a destroy that ran while the dispatch was
\* pending, the entry not pushed again), the dispatch completes without
\* error, calls no observer and no fallback, and leaves the stack, the
\* configuration and the initialization flag as they are, on an initialized
\* and on an uninitialized registry alike.
C27_DestroyDuringDispatch ==
  (last.op = "settle" /\ Count(last.pre, last.e) = 0) =>
    /\ ~last.err
    /\ last.calls = <<>>
    /\ stack = last.pre
    /\ options = last.preOpt
    /\ isInitialized = last.preInit
    /\ last.seen = <<>>

\* A handler resolves to a non-false value on an uninitialized registry with
\* an empty stack: the entry it was called for is gone and the registry has
\* no configuration.
C27_Witness ==
  /\ last.op = "settle" /\ last.res \in NonFalse
  /\ ~last.preInit /\ last.preOpt = NoOptions
  /\ last.pre = <<>> /\ stack = <<>>
  /\ ~isInitialized /\ options = NoOptions

TypeOK ==
  /\ stack \in Seq(AllEntries) /\ Len(stack) <= MaxStack
  /\ options \in BackHandlerOptions \cup {NoOptions}
  /\ isInitialized \in BOOLEAN
  /\ entry \in AllEntries \cup {0}
====
